---- MODULE Spec2Model ----
(***************************************************************************)
(* Model of wf-recorder's FrameWriter (src/src/frame-writer.cpp): the      *)
(* constructor's initialisation sequence, add_frame, finish_frame and the  *)
(* destructor, with the FFmpeg engines (encoder, muxer, scaler, hardware   *)
(* device) as nondeterministic environments.                               *)
(***************************************************************************)
EXTENDS Integers, Sequences, FiniteSets, TLC

(***************************************************************************)
(* Bounds of the model.                                                    *)
(***************************************************************************)
MaxFrames == 2      \* add_frame calls per session
MaxWidth  == 2      \* params.width  ranges over 1..MaxWidth
MaxHeight == 3      \* params.height ranges over 1..MaxHeight
MaxFmts   == 3      \* length of the encoder's pix_fmts list (SpecFormat)

(***************************************************************************)
(* Program constants.                                                      *)
(***************************************************************************)
FPS == 60           \* #define FPS 60
MsecBase == 1000    \* (AVRational){ 1, 1000 } in finish_frame
BytesPerPixel == 4  \* int(4 * params.width) in add_frame

\* a null pointer; handles are records so that any handle can be compared with it
NULL == [null |-> "NULL"]

(***************************************************************************)
(* Strings are modelled as tuples of characters so that std::string::find  *)
(* is a real substring search.                                             *)
(***************************************************************************)
S_libx264    == <<"l","i","b","x","2","6","4">>
S_libx265    == <<"l","i","b","x","2","6","5">>
S_vaapi      == <<"v","a","a","p","i">>
S_libx264rgb == <<"l","i","b","x","2","6","4","r","g","b">>
S_x264       == <<"x","2","6","4">>
S_libvpx     == <<"l","i","b","v","p","x">>
S_h264_vaapi == <<"h","2","6","4","_","v","a","a","p","i">>
S_empty      == << >>
S_renderD128 == <<"/","d","e","v","/","d","r","i","/","r","e","n","d","e","r","D","1","2","8">>

\* std::string::find(sub) != npos
Find(str, sub) ==
    \E i \in 1..(Len(str) - Len(sub) + 1) : SubSeq(str, i, i + Len(sub) - 1) = sub

(***************************************************************************)
(* Pixel formats.                                                          *)
(***************************************************************************)
AV_PIX_FMT_NONE    == "NONE"
AV_PIX_FMT_BGR0    == "BGR0"
AV_PIX_FMT_RGB0    == "RGB0"
AV_PIX_FMT_YUV420P == "YUV420P"
AV_PIX_FMT_NV12    == "NV12"
AV_PIX_FMT_VAAPI   == "VAAPI"
INPUT_FORMAT_BGR0  == "INPUT_FORMAT_BGR0"
INPUT_FORMAT_RGB0  == "INPUT_FORMAT_RGB0"

InputFormats == {INPUT_FORMAT_BGR0, INPUT_FORMAT_RGB0}
SwFormats    == {AV_PIX_FMT_BGR0, AV_PIX_FMT_RGB0, AV_PIX_FMT_YUV420P, AV_PIX_FMT_NV12}

\* codec->pix_fmts: an array terminated by AV_PIX_FMT_NONE
Terminated(list) == Append(list, AV_PIX_FMT_NONE)

RECURSIVE ScanFmt(_, _, _)
ScanFmt(fmt, supported, i) ==
    IF supported[i] = AV_PIX_FMT_NONE THEN FALSE
    ELSE IF supported[i] = fmt THEN TRUE
    ELSE ScanFmt(fmt, supported, i + 1)

is_fmt_supported(fmt, supported) == ScanFmt(fmt, supported, 1)

get_input_format(format) ==
    IF format = INPUT_FORMAT_BGR0 THEN AV_PIX_FMT_BGR0 ELSE AV_PIX_FMT_RGB0

choose_sw_format_yuv_first(format, pix_fmts) ==
    IF is_fmt_supported(AV_PIX_FMT_YUV420P, pix_fmts) THEN AV_PIX_FMT_YUV420P
    ELSE IF is_fmt_supported(get_input_format(format), pix_fmts)
         THEN get_input_format(format)
    ELSE pix_fmts[1]

choose_sw_format(format, pix_fmts) ==
    LET in_fmt == get_input_format(format) IN
    IF is_fmt_supported(in_fmt, pix_fmts) THEN in_fmt
    ELSE IF is_fmt_supported(AV_PIX_FMT_YUV420P, pix_fmts) THEN AV_PIX_FMT_YUV420P
    ELSE pix_fmts[1]

(***************************************************************************)
(* Codec options: maps from option name to value.                          *)
(***************************************************************************)
default_x264_options ==
    [k \in {"tune", "preset", "crf"} |->
        CASE k = "tune"   -> "zerolatency"
          [] k = "preset" -> "ultrafast"
          [] k = "crf"    -> "20"]

is_x264_family(codec) == Find(codec, S_libx264) \/ Find(codec, S_libx265)

merge_codec_options_defaults_win(codec, codec_options) ==
    IF is_x264_family(codec)
    THEN [k \in DOMAIN codec_options \cup DOMAIN default_x264_options |->
            IF k \in DOMAIN default_x264_options
            THEN default_x264_options[k] ELSE codec_options[k]]
    ELSE codec_options

\* lines 77-85: the value of params.codec_options after the defaults are seeded
merge_codec_options(codec, codec_options) ==
    IF is_x264_family(codec)
    THEN [k \in DOMAIN codec_options \cup DOMAIN default_x264_options |->
            IF k \in DOMAIN codec_options
            THEN codec_options[k] ELSE default_x264_options[k]]
    ELSE codec_options

(***************************************************************************)
(* Timestamps: av_packet_rescale_ts / av_rescale_q round to nearest, ties  *)
(* away from zero (AV_ROUND_NEAR_INF).                                     *)
(***************************************************************************)
av_rescale_q_floor(a, bq, cq) ==
    LET b == bq[1] * cq[2]
        c == cq[1] * bq[2] IN (a * b) \div c

av_rescale_q(a, bq, cq) ==
    LET b == bq[1] * cq[2]
        c == cq[1] * bq[2] IN
    IF a >= 0 THEN (a * b + c \div 2) \div c
    ELSE -(((-a) * b + c \div 2) \div c)

(***************************************************************************)
(* add_frame, lines 263-269: origin and stride after y-inversion.          *)
(***************************************************************************)
formatted_origin_off_by_one(width, height, y_invert) ==
    LET stride == BytesPerPixel * width IN
    IF y_invert THEN [off |-> stride * height, stride |-> -stride]
    ELSE [off |-> 0, stride |-> stride]

formatted_origin(width, height, y_invert) ==
    LET stride == BytesPerPixel * width IN
    IF y_invert THEN [off |-> stride * (height - 1), stride |-> -stride]
    ELSE [off |-> 0, stride |-> stride]


(***************************************************************************)
(* Configuration domains.                                                  *)
(***************************************************************************)
Codecs    == {S_libx264, S_libx264rgb, S_h264_vaapi}
AllCodecs == Codecs \cup {S_libx265, S_x264, S_libvpx}
HwDevices == {S_empty, S_renderD128}
Msecs     == {0, 25, 1000}

NoOptions == [k \in {} |-> "20"]
OptKeys   == {"tune", "preset", "crf", "g"}
OptVals   == {"10", "film"}
AllOptions == UNION {[K -> OptVals] : K \in SUBSET OptKeys}
FewOptions == {[k \in {"crf"} |-> "10"]}

\* the pix_fmts array of the AVCodec that avcodec_find_encoder_by_name returns
CodecPixFmts(codec) ==
    IF Find(codec, S_vaapi) THEN Terminated(<<AV_PIX_FMT_VAAPI>>)
    ELSE IF codec = S_libx264rgb THEN Terminated(<<AV_PIX_FMT_BGR0>>)
    ELSE IF codec = S_libvpx THEN Terminated(<<AV_PIX_FMT_YUV420P>>)
    ELSE Terminated(<<AV_PIX_FMT_YUV420P, AV_PIX_FMT_NV12>>)

RECURSIVE SeqsUpTo(_, _)
SeqsUpTo(S, n) ==
    IF n = 0 THEN {<< >>}
    ELSE LET shorter == SeqsUpTo(S, n - 1) IN
         shorter \cup {Append(q, x) : q \in shorter, x \in S}

AllPixFmtLists == {Terminated(l) : l \in SeqsUpTo(SwFormats, MaxFmts) \ {<< >>}}

(***************************************************************************)
(* State.                                                                  *)
(***************************************************************************)
VARIABLES
    _params,            \* the configuration the caller passed to the constructor
    params,             \* FrameWriterParams (codec_options is mutated by load_codec_options)
    pix_fmts,           \* codec->pix_fmts of the encoder named by params.codec
    pc,                 \* position in constructor / session / destructor
    trace,              \* engine calls made by the constructor and the destructor, in order
    outputFmt, fmtCtx, stream, codecCtx, options,
    swsCtx, hw_device_context, hw_frame_context, hw_cst,
    encoder_frame, hw_frame,
    enc,                \* frames buffered inside the encoder (their pts), oldest first
    mux,                \* what the muxer was asked to write, in order
    calls,              \* counts of add_frame / encode calls
    last,               \* the latest add_frame call: route, origin, stride
    pkt,                \* the member AVPacket that add_frame and the destructor reuse
    hist                \* what was submitted, fed to the encoder and reported by it, in order

vars == <<_params, params, pix_fmts, pc, trace, outputFmt, fmtCtx, stream, codecCtx, options,
          swsCtx, hw_device_context, hw_frame_context, hw_cst, encoder_frame, hw_frame,
          enc, mux, calls, last, pkt, hist>>

hwvars  == <<hw_device_context, hw_frame_context, hw_cst>>
runvars == <<enc, mux, calls, last, pkt, hist>>

NoCalls == [add |-> 0, xfer_fail |-> 0, encode_frame |-> 0, encode_null |-> 0,
            got_output |-> 0, drain_got |-> 0]
NoLast  == [route |-> "none"]
NoHist  == [submitted |-> << >>, fed |-> << >>, emitted |-> << >>]

\* state of a FrameWriter object on entry to the constructor body (line 206-208)
Constructing(p, fmts) ==
    /\ _params = p
    /\ params = p
    /\ pix_fmts = fmts
    /\ pc = "guess_format"
    /\ trace = << >>
    /\ outputFmt = NULL /\ fmtCtx = NULL /\ stream = NULL /\ codecCtx = NULL
    /\ options = NULL
    /\ swsCtx = NULL /\ hw_device_context = NULL /\ hw_frame_context = NULL
    /\ hw_cst = NULL
    /\ encoder_frame = NULL /\ hw_frame = NULL
    /\ enc = << >> /\ mux = << >>
    /\ calls = NoCalls
    /\ last = NoLast
    /\ pkt = [data |-> "indeterminate"]
    /\ hist = NoHist

ParamsOf(codecs, devices, optionsets, W, H) ==
    [codec : codecs, hw_device : devices, format : InputFormats,
     codec_options : optionsets, width : 1..W, height : 1..H]

Init ==
    \E p \in ParamsOf(Codecs, HwDevices, FewOptions, MaxWidth, MaxHeight) :
        Constructing(p, CodecPixFmts(p.codec))

\* std::exit(-1) after the engine calls `done`
Exit(done) ==
    /\ pc' = "exit"
    /\ trace' = trace \o done

Step(done, next) ==
    /\ pc' = next
    /\ trace' = trace \o done

(***************************************************************************)
(* Constructor, lines 206-227.                                             *)
(***************************************************************************)
GuessFormat ==
    /\ pc = "guess_format"
    /\ \E ok \in BOOLEAN :
        IF ok THEN /\ outputFmt' = [flags |-> "file"]
                   /\ Step(<<"av_guess_format">>, "alloc_context")
        ELSE /\ Exit(<<"av_guess_format">>)
             /\ UNCHANGED outputFmt
    /\ UNCHANGED <<_params, params, pix_fmts, fmtCtx, stream, codecCtx, options, swsCtx, hwvars,
                   encoder_frame, hw_frame, runvars>>

AllocContext ==
    /\ pc = "alloc_context"
    /\ \E ok \in BOOLEAN :
        IF ok THEN /\ fmtCtx' = [pb |-> NULL]
                   /\ Step(<<"avformat_alloc_output_context2">>, "load_codec_options")
        ELSE /\ Exit(<<"avformat_alloc_output_context2">>)
             /\ UNCHANGED fmtCtx
    /\ UNCHANGED <<_params, params, pix_fmts, outputFmt, stream, codecCtx, options, swsCtx, hwvars,
                   encoder_frame, hw_frame, runvars>>

(***************************************************************************)
(* init_codec, lines 127-192.                                              *)
(***************************************************************************)
LoadCodecOptions ==
    /\ pc = "load_codec_options"
    /\ LET merged == merge_codec_options(params.codec, params.codec_options) IN
        /\ params' = [params EXCEPT !.codec_options = merged]
        /\ options' = merged        \* av_dict_set of every pair into the empty dictionary
    /\ Step(<<"load_codec_options">>, "find_encoder")
    /\ UNCHANGED <<_params, pix_fmts, outputFmt, fmtCtx, stream, codecCtx, swsCtx, hwvars,
                   encoder_frame, hw_frame, runvars>>

FindEncoder ==
    /\ pc = "find_encoder"
    /\ \E ok \in BOOLEAN :
        IF ok THEN Step(<<"avcodec_find_encoder_by_name">>, "new_stream")
        ELSE Exit(<<"avcodec_find_encoder_by_name">>)
    /\ UNCHANGED <<_params, params, pix_fmts, outputFmt, fmtCtx, stream, codecCtx, options, swsCtx,
                   hwvars, encoder_frame, hw_frame, runvars>>

NewStream ==
    /\ pc = "new_stream"
    /\ \E ok \in BOOLEAN :
        IF ok THEN /\ stream' = [index |-> 0, time_base |-> <<0, 0>>]
                   /\ codecCtx' = [width |-> params.width, height |-> params.height,
                                   time_base |-> <<1, FPS>>, pix_fmt |-> AV_PIX_FMT_NONE,
                                   hw_frames_ctx |-> NULL, open |-> FALSE]
                   /\ Step(<<"avformat_new_stream">>, "pix_fmt")
        ELSE /\ Exit(<<"avformat_new_stream">>)
             /\ UNCHANGED <<stream, codecCtx>>
    /\ UNCHANGED <<_params, params, pix_fmts, outputFmt, fmtCtx, options, swsCtx, hwvars,
                   encoder_frame, hw_frame, runvars>>


\* av_buffer_ref(hw_frame_context)
HwFramesRef == [ref |-> "hw_frame_context"]

\* line 151: which branch of init_codec runs
use_hw_accel_by_device(codec, hw_device) == hw_device # S_empty

use_hw_accel(codec, hw_device) == Find(codec, S_vaapi)

\* init_hw_accel, lines 25-66, called from line 154
InitHwAccel ==
    /\ pc = "pix_fmt"
    /\ use_hw_accel(params.codec, params.hw_device)
    /\ \E outcome \in {"device_fail", "frame_ctx_fail", "constraints_fail", "init_fail", "ok"} :
        CASE outcome = "device_fail" ->
                /\ Exit(<<"av_hwdevice_ctx_create">>)
                /\ UNCHANGED <<hwvars, codecCtx>>
          [] outcome = "frame_ctx_fail" ->
                /\ Exit(<<"av_hwdevice_ctx_create", "av_hwframe_ctx_alloc">>)
                /\ UNCHANGED <<hwvars, codecCtx>>      \* device created, then unref'd
          [] outcome = "constraints_fail" ->
                /\ Exit(<<"av_hwdevice_ctx_create", "av_hwframe_ctx_alloc",
                          "av_hwdevice_get_hwframe_constraints">>)
                /\ hw_frame_context' = [format |-> AV_PIX_FMT_NONE, sw_format |-> AV_PIX_FMT_NONE]
                /\ UNCHANGED <<hw_device_context, hw_cst, codecCtx>>
          [] outcome = "init_fail" ->
                /\ Exit(<<"av_hwdevice_ctx_create", "av_hwframe_ctx_alloc",
                          "av_hwdevice_get_hwframe_constraints", "av_hwframe_ctx_init">>)
                /\ hw_cst' = [valid_hw_formats |-> <<AV_PIX_FMT_VAAPI>>]
                /\ UNCHANGED <<hw_device_context, hw_frame_context, codecCtx>>
          [] outcome = "ok" ->
                /\ Step(<<"av_hwdevice_ctx_create", "av_hwframe_ctx_alloc",
                          "av_hwdevice_get_hwframe_constraints", "av_hwframe_ctx_init">>,
                        "open_codec")
                /\ hw_device_context' = [type |-> "vaapi", device |-> params.hw_device]
                /\ hw_frame_context' = [format |-> AV_PIX_FMT_VAAPI, sw_format |-> AV_PIX_FMT_NV12]
                /\ hw_cst' = [valid_hw_formats |-> <<AV_PIX_FMT_VAAPI>>]
                /\ codecCtx' = [codecCtx EXCEPT !.pix_fmt = AV_PIX_FMT_VAAPI,
                                                !.hw_frames_ctx = HwFramesRef]
    /\ UNCHANGED <<_params, params, pix_fmts, outputFmt, fmtCtx, stream, options, swsCtx,
                   encoder_frame, hw_frame, runvars>>

SelectSwFormat_scaler_if_needed ==
    /\ pc = "pix_fmt"
    /\ ~use_hw_accel(params.codec, params.hw_device)
    /\ LET fmt == choose_sw_format(params.format, pix_fmts) IN
        /\ codecCtx' = [codecCtx EXCEPT !.pix_fmt = fmt]
        /\ IF fmt = get_input_format(params.format)
           THEN /\ Step(<<"choose_sw_format">>, "open_codec")
                /\ UNCHANGED swsCtx
           ELSE \E ok \in BOOLEAN :
                IF ok THEN /\ swsCtx' = [src |-> get_input_format(params.format), dst |-> fmt]
                           /\ Step(<<"choose_sw_format", "sws_getContext">>, "open_codec")
                ELSE /\ Exit(<<"choose_sw_format", "sws_getContext">>)
                     /\ UNCHANGED swsCtx
    /\ UNCHANGED <<_params, params, pix_fmts, outputFmt, fmtCtx, stream, options, hwvars,
                   encoder_frame, hw_frame, runvars>>

\* lines 156-162 with init_sws, lines 194-204
SelectSwFormat ==
    /\ pc = "pix_fmt"
    /\ ~use_hw_accel(params.codec, params.hw_device)
    /\ LET fmt == choose_sw_format(params.format, pix_fmts) IN
        /\ codecCtx' = [codecCtx EXCEPT !.pix_fmt = fmt]
        /\ \E ok \in BOOLEAN :
            IF ok THEN /\ swsCtx' = [src |-> get_input_format(params.format), dst |-> fmt]
                       /\ Step(<<"choose_sw_format", "sws_getContext">>, "open_codec")
            ELSE /\ Exit(<<"choose_sw_format", "sws_getContext">>)
                 /\ UNCHANGED swsCtx
    /\ UNCHANGED <<_params, params, pix_fmts, outputFmt, fmtCtx, stream, options, hwvars,
                   encoder_frame, hw_frame, runvars>>

\* lines 164-173
OpenCodec ==
    /\ pc = "open_codec"
    /\ \E ok \in BOOLEAN :
        IF ok THEN /\ codecCtx' = [codecCtx EXCEPT !.open = TRUE]
                   /\ options' = [passed |-> options]    \* consumed by avcodec_open2, then freed
                   /\ Step(<<"avcodec_open2">>, "avio_open")
        ELSE /\ Exit(<<"avcodec_open2">>)
             /\ UNCHANGED <<codecCtx, options>>
    /\ UNCHANGED <<_params, params, pix_fmts, outputFmt, fmtCtx, stream, swsCtx, hwvars,
                   encoder_frame, hw_frame, runvars>>

\* lines 177-183
AvioOpen ==
    /\ pc = "avio_open"
    /\ stream' = [stream EXCEPT !.time_base = <<1, FPS>>]
    /\ \E ok \in BOOLEAN :
        IF ok THEN /\ fmtCtx' = [fmtCtx EXCEPT !.pb = [file |-> "open"]]
                   /\ Step(<<"avio_open">>, "write_header")
        ELSE /\ Exit(<<"avio_open">>)
             /\ UNCHANGED fmtCtx
    /\ UNCHANGED <<_params, params, pix_fmts, outputFmt, codecCtx, options, swsCtx, hwvars,
                   encoder_frame, hw_frame, runvars>>

WriteHeader_no_exit ==
    /\ pc = "write_header"
    /\ \E ok \in BOOLEAN :
        /\ mux' = IF ok THEN Append(mux, [kind |-> "header"]) ELSE mux
        /\ Step(<<"avformat_write_header">>, "alloc_frames")
    /\ UNCHANGED <<_params, params, pix_fmts, outputFmt, fmtCtx, stream, codecCtx, options, swsCtx,
                   hwvars, encoder_frame, hw_frame, enc, calls, last, pkt, hist>>

\* lines 185-191
WriteHeader ==
    /\ pc = "write_header"
    /\ \E ok \in BOOLEAN :
        IF ok THEN /\ mux' = Append(mux, [kind |-> "header"])
                   /\ Step(<<"avformat_write_header">>, "alloc_frames")
        ELSE /\ Exit(<<"avformat_write_header">>)
             /\ UNCHANGED mux
    /\ UNCHANGED <<_params, params, pix_fmts, outputFmt, fmtCtx, stream, codecCtx, options, swsCtx,
                   hwvars, encoder_frame, hw_frame, enc, calls, last, pkt, hist>>

NoPts == 0 - 1      \* stands for AV_NOPTS_VALUE

\* linesize[0] of a frame buffer that av_frame_get_buffer(frame, 1) allocates
OwnLinesize(fmt, width) ==
    IF fmt \in {AV_PIX_FMT_BGR0, AV_PIX_FMT_RGB0} THEN BytesPerPixel * width ELSE width

OwnData == [buf |-> 0, off |-> 0]       \* buffer 0 is the frame's own buffer

\* lines 229-257
AllocFrames ==
    /\ pc = "alloc_frames"
    /\ LET fmt == IF hw_device_context # NULL
                  THEN get_input_format(params.format) ELSE codecCtx.pix_fmt
           frame == [format |-> fmt, data |-> OwnData,
                     linesize |-> OwnLinesize(fmt, params.width), pts |-> NoPts]
           hwf == [format |-> hw_frame_context.format, hw_frames_ctx |-> HwFramesRef,
                   pts |-> NoPts, uploaded |-> 0]
       IN \E outcome \in {"frame_fail", "hw_frame_fail", "ok"} :
            CASE outcome = "frame_fail" ->
                    /\ encoder_frame' = [frame EXCEPT !.data = NULL]
                    /\ Exit(<<"av_frame_get_buffer">>)
                    /\ UNCHANGED hw_frame
              [] outcome = "hw_frame_fail" ->
                    /\ hw_device_context # NULL
                    /\ encoder_frame' = frame
                    /\ hw_frame' = hwf
                    /\ Exit(<<"av_frame_get_buffer", "av_hwframe_get_buffer">>)
              [] outcome = "ok" ->
                    /\ encoder_frame' = frame
                    /\ IF hw_device_context # NULL
                       THEN /\ hw_frame' = hwf
                            /\ Step(<<"av_frame_get_buffer", "av_hwframe_get_buffer">>, "ready")
                       ELSE /\ UNCHANGED hw_frame
                            /\ Step(<<"av_frame_get_buffer">>, "ready")
    /\ UNCHANGED <<_params, params, pix_fmts, outputFmt, fmtCtx, stream, codecCtx, options, swsCtx,
                   hwvars, runvars>>


(***************************************************************************)
(* The encoder engine: it buffers submitted frames and emits packets in    *)
(* submission order; whether a call with a frame reports output is its     *)
(* choice, a call without a frame reports output while frames are buffered.*)
(***************************************************************************)
avcodec_encode_video2(queue, frame, may_emit) ==
    LET q == IF frame = NULL THEN queue ELSE Append(queue, frame.pts) IN
    IF q # << >> /\ (frame = NULL \/ may_emit)
    THEN [got_output |-> 1, pkt |-> [pts |-> Head(q)], queue |-> Tail(q)]
    ELSE [got_output |-> 0, pkt |-> NULL, queue |-> q]

\* finish_frame, lines 309-321: rescale, set the stream index, write
finish_frame_twice(m, packet, st) ==
    LET written == [kind |-> "packet",
                    pts |-> av_rescale_q(packet.pts, <<1, MsecBase>>, st.time_base),
                    stream_index |-> st.index,
                    msec |-> packet.pts] IN
    Append(Append(m, written), written)

finish_frame(m, packet, st) ==
    Append(m, [kind |-> "packet",
               pts |-> av_rescale_q(packet.pts, <<1, MsecBase>>, st.time_base),
               stream_index |-> st.index,
               msec |-> packet.pts])

\* line 277: a non-zero return of av_hwframe_transfer_data drops the frame
transfer_failed_ignored(ret) == FALSE

transfer_failed(ret) == ret # 0

\* line 297: the presentation timestamp given to the frame handed to the encoder
frame_pts_within_second(msec) == msec % MsecBase

frame_pts(msec) == msec

\* lines 274-275 and 287-288: the encoder frame is pointed at the caller's pixels
borrow(frame, buf, o) ==
    [frame EXCEPT !.data = [buf |-> buf, off |-> o.off], !.linesize = o.stride]

\* line 317
av_packet_unref_forgotten(p) == p

av_packet_unref(p) == [data |-> "none"]

\* lines 272, 284, 289: the route one add_frame call takes
add_frame_route_always_converts(hw_ctx, in_fmt, pix_fmt) ==
    IF hw_ctx # NULL THEN "hw" ELSE "sws"

add_frame_route(hw_ctx, in_fmt, pix_fmt) ==
    IF hw_ctx # NULL THEN "hw"
    ELSE IF in_fmt = pix_fmt THEN "zero_copy"
    ELSE "sws"

\* add_frame, lines 260-307
add_frame ==
    /\ pc = "ready"
    /\ calls.add < MaxFrames
    /\ \E msec \in Msecs, y_invert \in BOOLEAN, ret \in {0, 0 - 1}, may_emit \in BOOLEAN :
        LET o == formatted_origin(params.width, params.height, y_invert)
            buf == calls.add + 1        \* the caller's buffer of this call
            route == add_frame_route(hw_device_context, get_input_format(params.format),
                                     codecCtx.pix_fmt)
            borrowed == borrow(encoder_frame, buf, o)
            failed == route = "hw" /\ ret # 0     \* what av_hwframe_transfer_data did
            dropped == route = "hw" /\ transfer_failed(ret)
            ef == IF route = "sws" THEN [encoder_frame EXCEPT !.pts = frame_pts(msec)]
                  ELSE IF route = "zero_copy" THEN [borrowed EXCEPT !.pts = frame_pts(msec)]
                  ELSE borrowed
            \* the caller buffer whose pixels this call reads
            read_buf == IF route = "sws" THEN buf ELSE borrowed.data.buf
            hf == IF route = "hw" /\ ~dropped
                  THEN [hw_frame EXCEPT !.pts = frame_pts(msec),
                                        !.uploaded = IF ret = 0 THEN read_buf ELSE @]
                  ELSE hw_frame
            output_frame == IF route = "hw" THEN hf ELSE ef
            r == avcodec_encode_video2(enc, output_frame, may_emit)
        IN  /\ encoder_frame' = ef
            /\ hw_frame' = hf
            /\ last' = [route |-> route, msec |-> msec, y_invert |-> y_invert,
                        origin |-> o, failed |-> failed, read_buf |-> read_buf,
                        output_frame |-> IF dropped THEN "none"
                                         ELSE IF route = "hw" THEN "hw_frame"
                                         ELSE "encoder_frame"]
            /\ IF dropped
               THEN /\ calls' = [calls EXCEPT !.add = @ + 1, !.xfer_fail = @ + 1]
                    /\ hist' = [hist EXCEPT !.submitted = Append(@, msec)]
                    /\ UNCHANGED <<enc, mux, pkt>>
               ELSE /\ calls' = [calls EXCEPT !.add = @ + 1, !.encode_frame = @ + 1,
                                              !.got_output = @ + r.got_output,
                                              !.xfer_fail = IF failed THEN @ + 1 ELSE @]
                    /\ hist' = [submitted |-> Append(hist.submitted, msec),
                                fed |-> Append(hist.fed, read_buf),
                                emitted |-> IF r.got_output # 0
                                            THEN Append(hist.emitted, r.pkt.pts)
                                            ELSE hist.emitted]
                    /\ enc' = r.queue
                    /\ mux' = IF r.got_output # 0 THEN finish_frame(mux, r.pkt, stream)
                              ELSE mux
                    /\ pkt' = IF r.got_output # 0 THEN av_packet_unref([data |-> "packet"])
                              ELSE [data |-> "none"]
    /\ UNCHANGED <<_params, params, pix_fmts, pc, trace, outputFmt, fmtCtx, stream, codecCtx,
                   options, swsCtx, hwvars>>

(***************************************************************************)
(* ~FrameWriter, lines 323-346.                                            *)
(***************************************************************************)
\* lines 329-330
drain_write_skipped(m, got_output, packet, st) == m

drain_write(m, got_output, packet, st) ==
    IF got_output # 0 THEN finish_frame(m, packet, st) ELSE m

\* line 326: the loop goes on while the last call reported output
drain_continues_never(got_output) == FALSE

drain_continues(got_output) == got_output # 0

Drain_only_after_frames ==
    /\ pc \in {"ready", "drain"}
    /\ IF calls.add = 0
       THEN /\ Step(<<"drained">>, "write_trailer")
            /\ UNCHANGED <<calls, enc, mux, pkt, hist>>
       ELSE LET r == avcodec_encode_video2(enc, NULL, FALSE) IN
            /\ calls' = [calls EXCEPT !.encode_null = @ + 1, !.got_output = @ + r.got_output,
                                       !.drain_got = @ + r.got_output]
            /\ enc' = r.queue
            /\ mux' = drain_write(mux, r.got_output, r.pkt, stream)
            /\ pkt' = IF r.got_output # 0 THEN av_packet_unref([data |-> "packet"])
                      ELSE [data |-> "none"]
            /\ hist' = [hist EXCEPT !.emitted = IF r.got_output # 0
                                                THEN Append(@, r.pkt.pts) ELSE @]
            /\ IF drain_continues(r.got_output)
               THEN /\ pc' = "drain"
                    /\ UNCHANGED trace
               ELSE Step(<<"drained">>, "write_trailer")
    /\ UNCHANGED <<_params, params, pix_fmts, outputFmt, fmtCtx, stream, codecCtx, options, swsCtx,
                   hwvars, encoder_frame, hw_frame, last>>

\* one iteration of the loop of lines 326-331
Drain ==
    /\ pc \in {"ready", "drain"}
    /\ LET r == avcodec_encode_video2(enc, NULL, FALSE) IN
        /\ calls' = [calls EXCEPT !.encode_null = @ + 1, !.got_output = @ + r.got_output,
                                   !.drain_got = @ + r.got_output]
        /\ enc' = r.queue
        /\ mux' = drain_write(mux, r.got_output, r.pkt, stream)
        /\ pkt' = IF r.got_output # 0 THEN av_packet_unref([data |-> "packet"])
                  ELSE [data |-> "none"]
        /\ hist' = [hist EXCEPT !.emitted = IF r.got_output # 0
                                            THEN Append(@, r.pkt.pts) ELSE @]
        /\ IF drain_continues(r.got_output)
           THEN /\ pc' = "drain"
                /\ UNCHANGED trace
           ELSE Step(<<"drained">>, "write_trailer")
    /\ UNCHANGED <<_params, params, pix_fmts, outputFmt, fmtCtx, stream, codecCtx, options, swsCtx,
                   hwvars, encoder_frame, hw_frame, last>>

\* line 334
write_trailer_missing(m) == m

write_trailer(m) == Append(m, [kind |-> "trailer"])

WriteTrailer ==
    /\ pc = "write_trailer"
    /\ mux' = write_trailer(mux)
    /\ Step(<<"av_write_trailer">>, "close")
    /\ UNCHANGED <<_params, params, pix_fmts, outputFmt, fmtCtx, stream, codecCtx, options, swsCtx,
                   hwvars, encoder_frame, hw_frame, enc, calls, last, pkt, hist>>

\* lines 337-339
CloseFile ==
    /\ pc = "close"
    /\ fmtCtx' = [fmtCtx EXCEPT !.pb = NULL]
    /\ codecCtx' = [codecCtx EXCEPT !.open = FALSE, !.hw_frames_ctx = NULL]
    /\ Step(<<"avio_closep", "avcodec_close">>, "free")
    /\ UNCHANGED <<_params, params, pix_fmts, outputFmt, stream, options, swsCtx,
                   hwvars, encoder_frame, hw_frame, runvars>>

\* lines 342-345
FreeAll ==
    /\ pc = "free"
    /\ swsCtx' = NULL
    /\ encoder_frame' = NULL
    /\ fmtCtx' = NULL /\ stream' = NULL /\ codecCtx' = NULL
    /\ Step(<<"sws_freeContext", "av_frame_free", "avformat_free_context">>, "done")
    /\ UNCHANGED <<_params, params, pix_fmts, outputFmt, options, hwvars, hw_frame, runvars>>

Next ==
    \/ GuessFormat \/ AllocContext
    \/ LoadCodecOptions \/ FindEncoder \/ NewStream
    \/ InitHwAccel \/ SelectSwFormat
    \/ OpenCodec \/ AvioOpen \/ WriteHeader
    \/ AllocFrames
    \/ add_frame
    \/ Drain \/ WriteTrailer \/ CloseFile \/ FreeAll

Spec == Init /\ [][Next]_vars


(***************************************************************************)
(* Specifications for the pure parts of init_codec: the same constructor   *)
(* steps, started from wider sets of inputs.                               *)
(***************************************************************************)
\* format negotiation over every (native format, pix_fmts list) pair
InitFormat ==
    \E p \in ParamsOf({S_libvpx}, {S_empty}, {NoOptions}, 1, 1), fmts \in AllPixFmtLists :
        Constructing(p, fmts)

NextFormat ==
    \/ GuessFormat \/ AllocContext
    \/ LoadCodecOptions \/ FindEncoder \/ NewStream
    \/ SelectSwFormat

SpecFormat == InitFormat /\ [][NextFormat]_vars

\* option merging over every (codec name, caller option map) pair
InitOptions ==
    \E p \in ParamsOf(AllCodecs, {S_empty}, AllOptions, 1, 1) :
        Constructing(p, CodecPixFmts(p.codec))

NextOptions ==
    \/ GuessFormat \/ AllocContext
    \/ LoadCodecOptions \/ FindEncoder \/ NewStream
    \/ InitHwAccel \/ SelectSwFormat
    \/ OpenCodec

SpecOptions == InitOptions /\ [][NextOptions]_vars

(***************************************************************************)
(* Properties.                                                             *)
(***************************************************************************)
NPackets(m) == Cardinality({i \in 1..Len(m) : m[i].kind = "packet"})

PacketsOf(m) == {m[i] : i \in {j \in 1..Len(m) : m[j].kind = "packet"}}

\* C1: a failed hardware transfer drops exactly that frame: the call makes no
\* encode call, writes nothing, does not terminate the process, and the
\* number of encode calls with a frame is the number of submitted frames
\* minus the number of failed transfers.
C1_TransferFailureDropsOneFrame ==
    /\ [](calls.encode_frame = calls.add - calls.xfer_fail)
    /\ [][calls'.xfer_fail > calls.xfer_fail =>
            /\ calls'.encode_frame = calls.encode_frame
            /\ calls'.got_output = calls.got_output
            /\ enc' = enc /\ mux' = mux
            /\ pc' = "ready"]_vars

\* a frame was dropped and a later frame was encoded and written
C1_Witness ==
    /\ calls.add = 2 /\ calls.xfer_fail = 1 /\ calls.encode_frame = 1
    /\ last.route = "hw" /\ ~last.failed
    /\ NPackets(mux) >= 1

\* C2: every encode call that reported output, with or without input, has
\* its packet written; the destructor calls the encoder without input until
\* a call reports no output, which is one call more than the packets the
\* drain produced, and nothing stays buffered.
C2_DrainLosesNoPacket ==
    /\ NPackets(mux) = calls.got_output
    /\ pc \in {"write_trailer", "close", "free", "done"} =>
        /\ calls.encode_null = calls.drain_got + 1
        /\ enc = << >>

C2_Witness ==
    /\ pc = "done" /\ calls.add = 2 /\ calls.drain_got = 2 /\ calls.encode_null = 3
    /\ NPackets(mux) = 2

\* C3: the header is the first thing written and is written once, the
\* trailer is written once and is the last thing written, after every
\* packet including those of the drain.
C3_ContainerProtocol ==
    /\ \A i \in 1..Len(mux) :
        /\ mux[i].kind = "header"  <=> i = 1
        /\ mux[i].kind = "trailer" => i = Len(mux) /\ pc \in {"close", "free", "done"}
    /\ pc \in {"close", "free", "done"} =>
        /\ Len(mux) >= 2
        /\ mux[Len(mux)].kind = "trailer"
        /\ NPackets(mux) = calls.got_output

C3_Witness ==
    /\ pc = "done" /\ calls.drain_got >= 1 /\ calls.got_output > calls.drain_got
    /\ mux[Len(mux)].kind = "trailer"

\* the formats of a pix_fmts array, up to its terminator
RECURSIVE Listed(_, _)
Listed(supported, i) ==
    IF supported[i] = AV_PIX_FMT_NONE THEN {} ELSE {supported[i]} \cup Listed(supported, i + 1)

\* C4: on the software path the chosen format is the native input format if
\* the encoder lists it, otherwise planar YUV 4:2:0 if listed, otherwise the
\* first listed format.
C4_FormatPreference ==
    (codecCtx # NULL /\ codecCtx.pix_fmt # AV_PIX_FMT_NONE) =>
        LET native == IF params.format = INPUT_FORMAT_BGR0 THEN "BGR0" ELSE "RGB0"
            listed == Listed(pix_fmts, 1) IN
        /\ native \in listed => codecCtx.pix_fmt = native
        /\ native \notin listed /\ "YUV420P" \in listed => codecCtx.pix_fmt = "YUV420P"
        /\ native \notin listed /\ "YUV420P" \notin listed => codecCtx.pix_fmt = pix_fmts[1]

\* the list has both the native format and YUV 4:2:0, neither first
C4_Witness ==
    /\ codecCtx # NULL /\ codecCtx.pix_fmt = AV_PIX_FMT_RGB0
    /\ pix_fmts = Terminated(<<AV_PIX_FMT_NV12, AV_PIX_FMT_YUV420P, AV_PIX_FMT_RGB0>>)

\* C5: the options passed to codec-open are the caller's, plus, for a codec
\* name containing libx264 or libx265, the three defaults for the keys the
\* caller did not supply.
C5_OptionMerging ==
    (options # NULL /\ DOMAIN options = {"passed"}) =>
        LET caller == _params.codec_options
            passed == options.passed
            family == Find(_params.codec, S_libx264) \/ Find(_params.codec, S_libx265) IN
        /\ \A k \in DOMAIN caller : k \in DOMAIN passed /\ passed[k] = caller[k]
        /\ family =>
            /\ DOMAIN passed = DOMAIN caller \cup {"tune", "preset", "crf"}
            /\ "tune" \notin DOMAIN caller => passed["tune"] = "zerolatency"
            /\ "preset" \notin DOMAIN caller => passed["preset"] = "ultrafast"
            /\ "crf" \notin DOMAIN caller => passed["crf"] = "20"
        /\ ~family => passed = caller

\* caller supplied crf=10 only, codec libx264
C5_Witness ==
    /\ options # NULL /\ DOMAIN options = {"passed"}
    /\ _params.codec = S_libx264
    /\ _params.codec_options = [k \in {"crf"} |-> "10"]
    /\ options.passed = [k \in {"crf", "preset", "tune"} |->
                            IF k = "crf" THEN "10"
                            ELSE IF k = "preset" THEN "ultrafast" ELSE "zerolatency"]

\* C6: a written packet's timestamp is its millisecond timestamp times
\* 60/1000 rounded to the nearest integer (halves upwards), so 1000 ms is
\* written as 60; the stream's time base is 1/60 when packets are written.
C6_TimestampRescaling ==
    \A p \in PacketsOf(mux) :
        /\ stream = NULL \/ stream.time_base = <<1, 60>>
        /\ p.pts * 1000 - p.msec * 60 <= 500
        /\ p.pts * 1000 - p.msec * 60 > 0 - 500
        /\ p.msec = 1000 => p.pts = 60

C6_Witness ==
    /\ \E p \in PacketsOf(mux) : p.msec = 1000 /\ p.pts = 60
    /\ \E p \in PacketsOf(mux) : p.msec = 25 /\ p.pts = 2


Constructed == pc \in {"ready", "drain", "write_trailer", "close", "free", "done"}

\* C7 as stated: the hardware path is taken exactly when hw_device is non-empty.
C7_Original ==
    Constructed => (hw_device_context # NULL <=> params.hw_device # S_empty)

\* C7 (amended): the hardware context is initialised, format negotiation is
\* skipped and add_frame uploads through the hardware frame exactly when
\* the codec name contains "vaapi", whatever hw_device is.
C7_HardwarePathByCodecName ==
    LET vaapi == \E i \in 1..Len(params.codec) :
                    /\ i + 4 <= Len(params.codec)
                    /\ <<params.codec[i], params.codec[i + 1], params.codec[i + 2],
                         params.codec[i + 3], params.codec[i + 4]>> = <<"v", "a", "a", "p", "i">>
        called(c) == \E i \in 1..Len(trace) : trace[i] = c IN
    /\ called("av_hwdevice_ctx_create") => vaapi
    /\ called("choose_sw_format") => ~vaapi
    /\ Constructed =>
        /\ (hw_device_context # NULL /\ hw_frame_context # NULL) <=> vaapi
        /\ called("av_hwdevice_ctx_create") <=> vaapi
        /\ called("choose_sw_format") <=> ~vaapi
        /\ last.route # "none" => (last.route = "hw" <=> vaapi)

\* a vaapi codec without hw_device uploads through the hardware frame
C7_Witness ==
    /\ params.codec = S_h264_vaapi /\ params.hw_device = S_empty
    /\ last.route = "hw" /\ ~last.failed /\ hw_frame.uploaded = calls.add

\* C8: with y_invert the input is read from its last row with stride
\* -4*width, without it from offset 0 with stride 4*width; the rows read
\* with flip are the rows without flip in reverse order, and every row
\* lies inside the width*height*4-byte buffer.
C8_VerticalFlip ==
    last.route # "none" =>
        LET w == params.width
            h == params.height
            rows == [i \in 1..h |-> last.origin.off + (i - 1) * last.origin.stride]
            plain == [i \in 1..h |-> (i - 1) * 4 * w] IN
        /\ last.y_invert =>
            /\ last.origin = [off |-> 4 * w * (h - 1), stride |-> 0 - 4 * w]
            /\ \A i \in 1..h : rows[i] = plain[h + 1 - i]
        /\ ~last.y_invert =>
            /\ last.origin = [off |-> 0, stride |-> 4 * w]
            /\ rows = plain
        /\ \A i \in 1..h : rows[i] >= 0 /\ rows[i] + 4 * w <= w * h * 4
        /\ (pc = "ready" /\ last.route \in {"hw", "zero_copy"}) =>
            /\ encoder_frame.data.off = last.origin.off
            /\ encoder_frame.linesize = last.origin.stride

C8_Witness ==
    /\ last.route = "zero_copy" /\ last.y_invert
    /\ params.width = 2 /\ params.height = 3
    /\ encoder_frame.data.off = 16 /\ encoder_frame.linesize = 0 - 8

IndexOf(seq, e) == CHOOSE i \in 1..Len(seq) : seq[i] = e

Called(c) == \E i \in 1..Len(trace) : trace[i] = c

\* C9 as stated: the scaler is created after the encoder is opened, and only
\* when the hardware path is inactive and the formats differ.
C9_Original ==
    pc = "ready" =>
        /\ swsCtx # NULL <=>
            (hw_device_context = NULL /\ get_input_format(params.format) # codecCtx.pix_fmt)
        /\ swsCtx # NULL =>
            IndexOf(trace, "avcodec_open2") < IndexOf(trace, "sws_getContext")

CtorOrder(hw) ==
    <<"av_guess_format", "avformat_alloc_output_context2", "load_codec_options",
      "avcodec_find_encoder_by_name", "avformat_new_stream">>
    \o (IF hw THEN <<"av_hwdevice_ctx_create", "av_hwframe_ctx_alloc",
                     "av_hwdevice_get_hwframe_constraints", "av_hwframe_ctx_init">>
        ELSE <<"choose_sw_format", "sws_getContext">>)
    \o <<"avcodec_open2", "avio_open", "avformat_write_header", "av_frame_get_buffer">>
    \o (IF hw THEN <<"av_hwframe_get_buffer">> ELSE << >>)

\* C9 (amended): construction calls the engines in one fixed order: guess
\* container format, allocate container context, then either initialise the
\* hardware context or select the pixel format and create the software
\* scaler (on every software-path run, also when the formats are equal),
\* then open the encoder, write the header, allocate the frame buffers; the
\* scaler is created before the encoder is opened and the header is written
\* before any frame buffer is allocated.
C9_ConstructionOrder ==
    LET order == CtorOrder(Called("av_hwdevice_ctx_create"))
        n == IF Len(trace) < Len(order) THEN Len(trace) ELSE Len(order) IN
    /\ SubSeq(trace, 1, n) = SubSeq(order, 1, n)
    /\ Constructed => n = Len(order)
    /\ pc = "ready" =>
        /\ swsCtx # NULL <=> hw_device_context = NULL
        /\ swsCtx # NULL =>
            IndexOf(trace, "sws_getContext") < IndexOf(trace, "avcodec_open2")
    /\ encoder_frame # NULL => (mux # << >> /\ mux[1].kind = "header")

\* the scaler exists although the formats are equal
C9_Witness ==
    /\ pc = "ready" /\ swsCtx # NULL /\ swsCtx.src = swsCtx.dst
    /\ codecCtx.open /\ encoder_frame # NULL

\* C10 as stated: once the destructor has returned nothing that the
\* constructor acquired is still held.
C10_Original ==
    pc = "done" =>
        /\ swsCtx = NULL /\ encoder_frame = NULL /\ fmtCtx = NULL
        /\ hw_frame = NULL /\ hw_frame_context = NULL /\ hw_device_context = NULL


HwInitCalls == {"av_hwdevice_ctx_create", "av_hwframe_ctx_alloc",
                "av_hwdevice_get_hwframe_constraints", "av_hwframe_ctx_init"}

\* C11 as stated: when init_hw_accel exits the process at one of its four
\* failure points, the device handle, the frame-pool handle and the
\* constraints allocated before the failing step have all been released.
C11_Original ==
    (pc = "exit" /\ trace # << >> /\ trace[Len(trace)] \in HwInitCalls) =>
        /\ hw_device_context = NULL
        /\ hw_frame_context = NULL
        /\ hw_cst = NULL


\* everything the constructor sets up is in place
InitComplete ==
    /\ outputFmt # NULL /\ fmtCtx # NULL /\ fmtCtx.pb # NULL /\ stream # NULL
    /\ codecCtx # NULL /\ codecCtx.open
    /\ mux # << >> /\ mux[1].kind = "header"
    /\ encoder_frame # NULL /\ encoder_frame.data # NULL
    /\ \/ hw_device_context # NULL /\ hw_frame_context # NULL /\ hw_frame # NULL
       \/ swsCtx # NULL

\* C12: a failing initialisation step terminates the process at that step:
\* the calls made are a prefix of the construction order ending with the
\* failing call, nothing happens after the exit, and add_frame, encode calls
\* and packet writes only ever happen on a completely initialised pipeline.
C12_SetupFailFast ==
    /\ [](pc = "exit" =>
            LET order == CtorOrder(Called("av_hwdevice_ctx_create")) IN
            /\ Len(trace) <= Len(order)
            /\ trace = SubSeq(order, 1, Len(trace))
            /\ calls = NoCalls /\ hist = NoHist /\ NPackets(mux) = 0)
    /\ []((calls # NoCalls \/ NPackets(mux) > 0 \/ pc \in {"ready", "drain"}) =>
            /\ pc # "exit"
            /\ pc \in {"ready", "drain"} => InitComplete)
    /\ [][pc = "exit" => pc' = "exit" /\ trace' = trace /\ mux' = mux /\ calls' = calls]_vars

\* the header write failed: the earlier steps ran, the frame buffers were never allocated
C12_Witness ==
    /\ pc = "exit" /\ trace[Len(trace)] = "avformat_write_header"
    /\ codecCtx.open /\ fmtCtx.pb # NULL /\ mux = << >> /\ encoder_frame = NULL


\* C13: every add_frame call takes the hardware route when a hardware device
\* context exists, otherwise the zero-copy route when the native format is
\* the encoder's format, otherwise the scaler route; the route never changes
\* during a session, and the encoder gets the hardware frame on the hardware
\* route and the encoder frame on the other two.
C13_ThreeRoutes ==
    /\ []((last.route # "none" /\ pc # "done") =>
            LET hw == hw_device_context # NULL
                native == IF params.format = INPUT_FORMAT_BGR0 THEN "BGR0" ELSE "RGB0"
                same == native = codecCtx.pix_fmt IN
            /\ last.route = "hw" <=> hw
            /\ last.route = "zero_copy" <=> (~hw /\ same)
            /\ last.route = "sws" <=> (~hw /\ ~same)
            /\ last.route = "sws" => swsCtx # NULL
            /\ last.output_frame =
                (IF last.route = "hw" THEN (IF last.failed THEN "none" ELSE "hw_frame")
                 ELSE "encoder_frame")
            /\ (last.route = "zero_copy" /\ pc = "ready") =>
                /\ encoder_frame.data = [buf |-> calls.add, off |-> last.origin.off]
                /\ encoder_frame.linesize = last.origin.stride
            /\ (last.route = "sws" /\ pc = "ready") =>
                /\ encoder_frame.data = [buf |-> 0, off |-> 0]
                /\ encoder_frame.linesize > 0)
    /\ [][last.route # "none" => last'.route = last.route]_vars

\* two calls on the zero-copy route
C13_Witness ==
    /\ pc = "ready" /\ calls.add = 2 /\ last.route = "zero_copy"
    /\ swsCtx # NULL /\ hw_device_context = NULL
    /\ encoder_frame.data.buf = 2 /\ last.output_frame = "encoder_frame"


IsPacket(e) == e.kind = "packet"

\* the millisecond timestamps of the packets written, in the order written
WrittenMsecs(m) ==
    LET ps == SelectSeq(m, IsPacket) IN [i \in 1..Len(ps) |-> ps[i].msec]

\* C14: the packets written are exactly the packets the encoder reported,
\* in the order it reported them, each written once and in the same call
\* that reported it, with the stream's index, and the packet is released
\* after the write.
C14_PacketsInProductionOrder ==
    /\ [](/\ WrittenMsecs(mux) = hist.emitted
          /\ \A p \in PacketsOf(mux) :
                p.stream_index = 0 /\ (stream # NULL => p.stream_index = stream.index)
          /\ pkt.data # "packet")
    /\ [][hist'.emitted # hist.emitted =>
            /\ Len(hist'.emitted) = Len(hist.emitted) + 1
            /\ Len(mux') = Len(mux) + 1
            /\ mux'[Len(mux')].kind = "packet"
            /\ mux'[Len(mux')].msec = hist'.emitted[Len(hist'.emitted)]
            /\ SubSeq(mux', 1, Len(mux)) = mux]_vars

\* one packet written by add_frame, a later one by the drain
C14_Witness ==
    /\ pc = "done" /\ hist.emitted = <<1000, 25>> /\ calls.drain_got = 1
    /\ WrittenMsecs(mux) = <<1000, 25>> /\ pkt.data = "none"


NonDecreasing(q) == \A i, j \in 1..Len(q) : i <= j => q[i] <= q[j]

\* the rescaled timestamps of the packets written, in the order written
WrittenPts(m) ==
    LET ps == SelectSeq(m, IsPacket) IN [i \in 1..Len(ps) |-> ps[i].pts]

\* C15: when the caller's millisecond timestamps are non-decreasing (the
\* encoder engine emits in submission order), the timestamps of the packets
\* written, over encoding and draining together, are non-decreasing.
C15_MonotonicTimestamps ==
    NonDecreasing(hist.submitted) => NonDecreasing(WrittenPts(mux))

\* increasing timestamps, one packet written while encoding and one by the drain
C15_Witness ==
    /\ pc = "done" /\ hist.submitted = <<25, 1000>>
    /\ WrittenPts(mux) = <<2, 60>> /\ calls.drain_got = 1


\* C16: an add_frame call that is not dropped gives the frame it hands to
\* the encoder the call's msec as pts, makes exactly one encode call and
\* writes at most one packet; packets written never outnumber encode calls
\* and no submitted frame is fed to the encoder twice.
C16_OneEncodeCallPerFrame ==
    /\ [](/\ NPackets(mux) <= calls.encode_frame
          /\ Len(hist.fed) = calls.encode_frame
          /\ \A i, j \in 1..Len(hist.fed) : hist.fed[i] = hist.fed[j] => i = j
          /\ (pc = "ready" /\ last.route # "none") =>
                /\ last.output_frame = "hw_frame" => hw_frame.pts = last.msec
                /\ last.output_frame = "encoder_frame" => encoder_frame.pts = last.msec)
    /\ [][(calls'.add = calls.add + 1 /\ last'.output_frame # "none") =>
            /\ calls'.encode_frame = calls.encode_frame + 1
            /\ calls'.encode_null = calls.encode_null
            /\ NPackets(mux') - NPackets(mux) \in {0, 1}
            /\ hist'.fed = Append(hist.fed, calls'.add)]_vars

\* two frames encoded, one packet out so far
C16_Witness ==
    /\ pc = "ready" /\ calls.add = 2 /\ calls.encode_frame = 2
    /\ NPackets(mux) = 1 /\ hist.fed = <<1, 2>> /\ encoder_frame.pts = 1000


\* the state of the encoder session, read off the program state
Session ==
    IF Called("avcodec_close") THEN "Closed"
    ELSE IF calls.encode_null > 0 THEN "Draining"
    ELSE IF calls.encode_frame > 0 THEN "Encoding"
    ELSE IF codecCtx # NULL /\ codecCtx.open THEN "Open"
    ELSE "Uninitialized"

SessionMoves ==
    {<<"Uninitialized", "Open">>, <<"Open", "Encoding">>, <<"Open", "Draining">>,
     <<"Encoding", "Encoding">>, <<"Encoding", "Draining">>,
     <<"Draining", "Draining">>, <<"Draining", "Closed">>}

\* C17: the session only moves Uninitialized -> Open -> (Encoding)* ->
\* Draining -> Closed; the drain happens once, at teardown, also when no
\* frame was submitted; no frame is encoded once draining has started, and
\* the codec is closed only after the drain has finished and the trailer
\* has been written.
C17_SessionLifecycle ==
    /\ [][Session' = Session \/ <<Session, Session'>> \in SessionMoves]_vars
    /\ [][calls.encode_null > 0 =>
            calls'.encode_frame = calls.encode_frame /\ calls'.add = calls.add]_vars
    /\ [](/\ Cardinality({i \in 1..Len(trace) : trace[i] = "drained"}) <= 1
          /\ Called("avcodec_close") =>
                /\ Called("drained") /\ enc = << >> /\ calls.encode_null >= 1
                /\ IndexOf(trace, "drained") < IndexOf(trace, "av_write_trailer")
                /\ IndexOf(trace, "av_write_trailer") < IndexOf(trace, "avcodec_close")
                /\ mux[Len(mux)].kind = "trailer")

\* a session without frames is drained and closed
C17_Witness ==
    /\ pc = "done" /\ calls.add = 0 /\ calls.encode_null = 1 /\ Session = "Closed"


(***************************************************************************)
(* The destructor is straight-line synchronous code: once it has made its  *)
(* first call it keeps running, so its steps are weakly fair.  When the    *)
(* destructor starts is the caller's choice.                               *)
(***************************************************************************)
InitLive ==
    \E p \in ParamsOf({S_libx264rgb, S_h264_vaapi}, {S_renderD128}, {NoOptions}, 1, 1) :
        Constructing(p, CodecPixFmts(p.codec))

DrainLoop == pc = "drain" /\ Drain

SpecLive ==
    /\ InitLive /\ [][Next]_vars
    /\ WF_vars(DrainLoop) /\ WF_vars(WriteTrailer) /\ WF_vars(CloseFile) /\ WF_vars(FreeAll)

InDestructor == pc \in {"drain", "write_trailer", "close", "free"}

\* C18: the drain makes one encode call more than the number of packets
\* that were buffered when it started, and a destructor that has started
\* writes the trailer and completes.
C18_DrainTerminates ==
    /\ [](pc \in {"write_trailer", "close", "free", "done"} =>
            LET buffered == calls.encode_frame - (calls.got_output - calls.drain_got) IN
            /\ calls.drain_got = buffered
            /\ calls.encode_null = buffered + 1)
    /\ InDestructor ~> (pc = "done" /\ mux[Len(mux)].kind = "trailer")

\* two packets were buffered: three calls without input
C18_Witness ==
    /\ pc = "done" /\ calls.encode_frame = 2 /\ calls.got_output = 2
    /\ calls.drain_got = 2 /\ calls.encode_null = 3


\* C19 as stated: once add_frame has returned, on every route, the
\* FrameWriter holds no pointer into the caller's buffer: the encoder
\* frame's data pointer refers to the frame's own buffer (buffer 0).
C19_Original ==
    (calls.add > 0 /\ pc \in {"ready", "drain", "write_trailer", "close", "free"}) =>
        encoder_frame.data.buf = 0

====
